---- MODULE Spec2Model ----
(***************************************************************************)
(* The Signal trigger node (src/nodes/Signal/SignalTrigger.node.ts): the   *)
(* WebSocket life cycle of trigger() -- connectWebSocket, its open, error  *)
(* and close handlers, the reconnect timers, closeFunction -- and the      *)
(* message handler with its dedup window, classification, filters, emit    *)
(* and read receipt.                                                       *)
(***************************************************************************)
EXTENDS Integers, Sequences, FiniteSets, TLC

VARIABLES
    cfg,                \* the node parameters read at lines 78-82
    handle,             \* the promise trigger() returns: unstarted, pending, resolved, rejected
    ws,                 \* readyState of the socket of line 249 (the one closeFunction closes)
    reconnected,        \* sockets made by timer-fired connectWebSocket calls: readyState -> how many
    timers,             \* pending setTimeout(connectWebSocket, reconnectDelay) timers, oldest first
    stopped,            \* closeFunction has been called
    processedMessages,  \* the Set<number> of line 86
    seenSinceClear,     \* history: the timestamps 0..MaxTs of frames handled since the window was last cleared
    clears,             \* history: how many times line 141 has run
    emitted,            \* history: what this.emit was given, in order
    receipts,           \* read-receipt fetches in flight
    clock,              \* environment: the next timestamp a sender's clock hands out
    peer,               \* a second trigger() call: its socket, its Set of line 86, what it emitted
    exec,               \* the Signal node (Signal.node.ts, messages.ts): one execute() or one direct call
    last                \* history: the handler that ran last, and what it did

vars ==
    <<cfg, handle, ws, reconnected, timers, stopped, processedMessages,
      seenSinceClear, clears, emitted, receipts, clock, peer, exec, last>>

triggerVars ==
    <<cfg, handle, ws, reconnected, timers, stopped, processedMessages,
      seenSinceClear, clears, emitted, receipts, clock, peer, last>>

----------------------------------------------------------------------------
(* Bounds of the model.                                                    *)

\* reconnectDelay (seconds) is drawn from MinDelay..MaxDelay
MaxDelay == 2
\* the environment raises no further socket error once this many sockets and timers are alive
MaxPop == 4
\* execute() is given up to MaxItems input items (SpecNode)
MaxItems == 2
\* the timestamps 1..MaxTs are the ones senders send again (SpecWindow)
MaxTs == 1
\* frames of SpecWindow carry fresh timestamps up to maxMessages + WindowExtra
WindowExtra == 2

(* Constants of the program.                                               *)

maxMessages == 1000
MsPerSecond == 1000
MinDelay == 1
MaxValue == 60
DefaultRetries == 2

----------------------------------------------------------------------------
(* Values.                                                                 *)

Absent == -1
Undefined == "undefined"

LiveStates == {"CONNECTING", "OPEN", "CLOSING"}

NoSockets == [st \in LiveStates |-> 0]

\* a payload field that is absent (undefined): for a list, a value no list of the
\* program equals
NoList == <<Undefined>>

\* the payload {} : every field absent
EmptyContent == [message |-> Undefined, attachments |-> NoList, reactions |-> NoList]

\* A frame as the message handler reads it. ok = JSON.parse succeeds; timestamp is
\* Absent when the envelope has none; dataMessage / sentMessage hold the payload of
\* envelope.dataMessage / envelope.syncMessage.sentMessage when has* says they exist.
MakeFrame(ok, ts, shape, src, dst, content) ==
    [ok |-> ok,
     timestamp |-> ts,
     hasDataMessage |-> shape \in {"data", "data+sync"},
     hasSyncMessage |-> shape \in {"sync", "data+sync", "sync-nosent"},
     hasSentMessage |-> shape \in {"sync", "data+sync"},
     sourceUuid |-> src,
     destinationUuid |-> IF shape \in {"sync", "data+sync"} THEN dst ELSE Undefined,
     dataMessage |-> IF shape \in {"data", "data+sync"} THEN content ELSE EmptyContent,
     sentMessage |-> IF shape = "sync" THEN content ELSE EmptyContent]

NoFrame == MakeFrame(FALSE, Absent, "none", Undefined, Undefined, EmptyContent)

NoTimer == [delay |-> 0, age |-> 0, pendingAtStop |-> FALSE]

Idle(op) == [op |-> op, frame |-> NoFrame, outcome |-> "", timer |-> NoTimer]

Min(a, b) == IF a < b THEN a ELSE b

RemoveAt(s, i) == [j \in 1..(Len(s) - 1) |-> IF j < i THEN s[j] ELSE s[j + 1]]

----------------------------------------------------------------------------
(* trigger(): parameters, sockets, timers.                                 *)

Config ==
    [reconnectDelay : MinDelay..MaxDelay,
     ignoreMessages : BOOLEAN,
     ignoreAttachments : BOOLEAN,
     ignoreReactions : BOOLEAN,
     markAsRead : BOOLEAN]

\* line 78
reconnectDelayInSeconds == cfg.reconnectDelay
reconnectDelay == cfg.reconnectDelay * MsPerSecond

\* setTimeout(connectWebSocket, delay): a timer that may fire once delay has elapsed
SetTimeout(ts, delay) ==
    Append(ts, [delay |-> delay, age |-> 0, pendingAtStop |-> FALSE])

\* connectWebSocket, lines 121-124: a new socket, connecting
connectWebSocket(socks) == [socks EXCEPT !["CONNECTING"] = @ + 1]

\* processedMessages is made once, at line 86, outside connectWebSocket: a new
\* connection goes on with the window as it is
WindowOfNewConnection(window) == {}
WindowOnConnect(window) == window

\* ws.on('error'), lines 236-239
OnError(ts) == SetTimeout(ts, reconnectDelay)

\* ws.on('close'), lines 241-244
OnCloseAtOnce(ts) == SetTimeout(ts, 0)
OnClose(ts) == SetTimeout(ts, reconnectDelay)

\* the second error handler of the first socket, lines 262-265
InitialOnError(ts) == SetTimeout(ts, reconnectDelay)

\* closeFunction, lines 255-258: ws.close() on the socket of line 249; close() on a
\* socket that is closing or closed does nothing
closeFunctionTerminates(state) == IF state = "OPEN" THEN "CLOSING" ELSE "CLOSED"
closeFunction(state) == IF state = "OPEN" THEN "CLOSING" ELSE state

Live(st) == (IF ws = st THEN 1 ELSE 0) + reconnected[st]

Population ==
    Live("CONNECTING") + Live("OPEN") + Live("CLOSING") + Len(timers)

----------------------------------------------------------------------------
(* The message handler, lines 130-234.                                     *)

\* line 135: message.envelope?.timestamp || 0
TimestampAsSent(f) == f.timestamp
Timestamp(f) == IF f.timestamp = Absent THEN 0 ELSE f.timestamp

\* line 140: the capacity rule applies
AtCapacityOffByOne(window) == Cardinality(window) > maxMessages
AtCapacity(window) == Cardinality(window) >= maxMessages

\* lines 140-143: the window after a timestamp that is not in it is recorded
RecordWithoutClear(window, ts) == window \cup {ts}
RecordWithoutInsert(window, ts) == IF AtCapacity(window) THEN {} ELSE window
Record(window, ts) == (IF AtCapacity(window) THEN {} ELSE window) \cup {ts}

\* lines 136-143: the handler gets past the duplicate check, whatever it ends in later
RecordedWhenEmitted(out) == out \in {"emitted", "emit_error"}
Recorded(out) == out \notin {"parse_error", "duplicate"}

\* line 136
NeverDuplicate(window, ts) == FALSE
IsDuplicate(window, ts) == ts \in window

\* line 145: dataMessage || syncMessage?.sentMessage || {}
DataMsg(f) ==
    IF f.hasDataMessage THEN f.dataMessage
    ELSE IF f.hasSyncMessage /\ f.hasSentMessage THEN f.sentMessage
    ELSE EmptyContent

\* lines 148-175
MessageTypeSyncFirst(f) ==
    IF f.hasSyncMessage
    THEN IF f.sourceUuid = f.destinationUuid THEN "self_note" ELSE "outgoing"
    ELSE IF f.hasDataMessage THEN "incoming" ELSE "unknown"
MessageType(f) ==
    IF f.hasDataMessage THEN "incoming"
    ELSE IF f.hasSyncMessage
         THEN IF f.sourceUuid = f.destinationUuid THEN "self_note" ELSE "outgoing"
         ELSE "unknown"

\* lines 151-177
ShouldProcessSelfEcho(f) == MessageType(f) \in {"incoming", "self_note", "outgoing"}
ShouldProcess(f) == MessageType(f) \in {"incoming", "self_note"}

\* x || '' and x || [] of lines 183-187
OrBlank(x) == IF x = Undefined THEN "" ELSE x
OrNone(x) == IF x = NoList THEN <<>> ELSE x

\* lines 182-197
ProcessedMessageAsSent(f) ==
    [messageText |-> DataMsg(f).message,
     attachments |-> DataMsg(f).attachments,
     reactions |-> DataMsg(f).reactions,
     sourceUuid |-> f.sourceUuid,
     timestamp |-> f.timestamp,
     messageType |-> MessageType(f)]
ProcessedMessage(f) ==
    [messageText |-> OrBlank(DataMsg(f).message),
     attachments |-> OrNone(DataMsg(f).attachments),
     reactions |-> OrNone(DataMsg(f).reactions),
     sourceUuid |-> OrBlank(f.sourceUuid),
     timestamp |-> Timestamp(f),
     messageType |-> MessageType(f)]

\* lines 202-204
NeverEmpty(pm) == FALSE
IsEmpty(pm) ==
    pm.messageText = "" /\ Len(pm.attachments) = 0 /\ Len(pm.reactions) = 0

\* lines 210-212
IsIgnoredTextOnly(pm) == cfg.ignoreMessages /\ pm.messageText # ""
IsIgnored(pm) ==
    \/ cfg.ignoreMessages /\ pm.messageText # ""
    \/ cfg.ignoreAttachments /\ Len(pm.attachments) > 0
    \/ cfg.ignoreReactions /\ Len(pm.reactions) > 0

\* line 224
WantsReceiptAnyType(pm) == cfg.markAsRead
WantsReceipt(pm) == cfg.markAsRead /\ pm.messageType = "incoming"

\* line 220: this.emit is handed the one record, after those handed over before
EmitAhead(log, e) == <<e>> \o log
Emit(log, e) == Append(log, e)

\* markMessageAsRead up to its fetch, lines 90-108
markMessageAsRead(rs, sourceUuid, timestamp) ==
    Append(rs, [recipient |-> sourceUuid, timestamp |-> timestamp])

\* line 130: the handler is async and the socket does not await it, so a frame is
\* handled whatever fetches of earlier frames are still in flight
AcceptsFrameWhenIdle(rs) == Len(rs) = 0
AcceptsFrame(rs) == TRUE

\* Where the handler leaves a frame: the return or catch it ends in.
OutcomeWithoutParseCheck(f, throws) ==
    IF IsDuplicate(processedMessages, Timestamp(f)) THEN "duplicate"
    ELSE IF ~ShouldProcess(f) THEN "skipped"
    ELSE IF IsEmpty(ProcessedMessage(f)) THEN "empty"
    ELSE IF IsIgnored(ProcessedMessage(f)) THEN "ignored"
    ELSE IF throws THEN "emit_error"
    ELSE "emitted"
Outcome(f, throws) ==
    IF ~f.ok THEN "parse_error"
    ELSE IF IsDuplicate(processedMessages, Timestamp(f)) THEN "duplicate"
    ELSE IF ~ShouldProcess(f) THEN "skipped"
    ELSE IF IsEmpty(ProcessedMessage(f)) THEN "empty"
    ELSE IF IsIgnored(ProcessedMessage(f)) THEN "ignored"
    ELSE IF throws THEN "emit_error"
    ELSE "emitted"

\* The same handler in a second trigger() call, which closes over its own Set (line 86).
NoPeer == [ws |-> "NONE", processedMessages |-> {}, emitted |-> <<>>]

SharedWindow == processedMessages
PeerWindow == peer.processedMessages

PeerOutcome(f) ==
    IF ~f.ok THEN "parse_error"
    ELSE IF IsDuplicate(PeerWindow, Timestamp(f)) THEN "duplicate"
    ELSE IF ~ShouldProcess(f) THEN "skipped"
    ELSE IF IsEmpty(ProcessedMessage(f)) THEN "empty"
    ELSE IF IsIgnored(ProcessedMessage(f)) THEN "ignored"
    ELSE "emitted"

\* lines 220-224: this.emit returned, so the handler goes on to line 224; when it
\* raises, the catch of line 231 is next
EmitReturnedOrRaised(out) == out \in {"emitted", "emit_error"}
EmitReturned(out) == out = "emitted"

\* ws.on('message'): one frame on some open socket, run to its first await.
\* throws: this.emit raises.
Receive(f, throws) ==
    LET out == Outcome(f, throws)
        ts == Timestamp(f)
        pm == ProcessedMessage(f)
        recorded == Recorded(out)
        cleared == recorded /\ AtCapacity(processedMessages)
    IN  /\ Live("OPEN") > 0
        /\ AcceptsFrame(receipts)
        /\ processedMessages' =
               IF recorded THEN Record(processedMessages, ts) ELSE processedMessages
        /\ clears' = IF cleared THEN clears + 1 ELSE clears
        /\ seenSinceClear' =
               IF ~f.ok THEN seenSinceClear
               ELSE (IF cleared THEN {} ELSE seenSinceClear) \cup ({ts} \cap 0..MaxTs)
        /\ emitted' =
               IF out = "emitted"
               THEN Emit(emitted, [event |-> pm, epoch |-> clears'])
               ELSE emitted
        /\ receipts' =
               IF EmitReturned(out) /\ WantsReceipt(pm)
               THEN markMessageAsRead(receipts, pm.sourceUuid, ts)
               ELSE receipts
        /\ last' = [op |-> "message", frame |-> f, outcome |-> out, timer |-> NoTimer]
        /\ UNCHANGED <<exec, peer, cfg, handle, ws, reconnected, timers, stopped>>

\* The fetch of markMessageAsRead settles, lines 110-118: every result is only logged.
ReceiptSettlesOrReconnects(i, result) ==
    /\ i \in 1..Len(receipts)
    /\ receipts' = RemoveAt(receipts, i)
    /\ timers' = IF result = "ok" THEN timers ELSE SetTimeout(timers, reconnectDelay)
    /\ last' = [Idle("receipt") EXCEPT !.outcome = result]
    /\ UNCHANGED <<exec, peer, cfg, handle, ws, reconnected, stopped, processedMessages,
                   seenSinceClear, clears, emitted, clock>>
ReceiptSettlesOrRetries(i, result) ==
    /\ i \in 1..Len(receipts)
    /\ receipts' = IF result = "ok" THEN RemoveAt(receipts, i)
                   ELSE Append(RemoveAt(receipts, i), receipts[i])
    /\ last' = [Idle("receipt") EXCEPT !.outcome = result]
    /\ UNCHANGED <<exec, peer, cfg, handle, ws, reconnected, timers, stopped, processedMessages,
                   seenSinceClear, clears, emitted, clock>>
ReceiptSettles(i, result) ==
    /\ i \in 1..Len(receipts)
    /\ receipts' = RemoveAt(receipts, i)
    /\ last' = [Idle("receipt") EXCEPT !.outcome = result]
    /\ UNCHANGED <<exec, peer, cfg, handle, ws, reconnected, timers, stopped, processedMessages,
                   seenSinceClear, clears, emitted, clock>>

----------------------------------------------------------------------------
(* The life cycle.                                                         *)

\* trigger(), lines 73-84 and 249: the credentials are read, then the first socket is made
TriggerConnectsFirst(credentialsOk) ==
    /\ handle = "unstarted"
    /\ handle' = IF credentialsOk THEN "pending" ELSE "rejected"
    /\ ws' = "CONNECTING"
    /\ last' = Idle("trigger")
    /\ UNCHANGED <<exec, peer, cfg, reconnected, timers, stopped, processedMessages,
                   seenSinceClear, clears, emitted, receipts, clock>>
Trigger(credentialsOk) ==
    /\ handle = "unstarted"
    /\ handle' = IF credentialsOk THEN "pending" ELSE "rejected"
    /\ ws' = IF credentialsOk THEN "CONNECTING" ELSE ws
    /\ last' = Idle("trigger")
    /\ UNCHANGED <<exec, peer, cfg, reconnected, timers, stopped, processedMessages,
                   seenSinceClear, clears, emitted, receipts, clock>>

\* 'open' on the first socket, lines 126-128 and 252-260: the promise resolves
OpenInitial ==
    /\ ws = "CONNECTING"
    /\ ws' = "OPEN"
    /\ handle' = "resolved"
    /\ last' = Idle("open")
    /\ UNCHANGED <<exec, peer, cfg, reconnected, timers, stopped, processedMessages,
                   seenSinceClear, clears, emitted, receipts, clock>>

\* 'open' on a later socket, lines 126-128
OpenReconnected ==
    /\ reconnected["CONNECTING"] > 0
    /\ reconnected' = [reconnected EXCEPT !["CONNECTING"] = @ - 1, !["OPEN"] = @ + 1]
    /\ last' = Idle("open")
    /\ UNCHANGED <<exec, peer, cfg, handle, ws, timers, stopped, processedMessages,
                   seenSinceClear, clears, emitted, receipts, clock>>

\* 'error' on the first socket: both its error handlers run (lines 236-239, 262-265)
ErrorInitialRejects ==
    /\ ws \in {"CONNECTING", "OPEN"}
    /\ Population < MaxPop
    /\ ws' = "CLOSING"
    /\ handle' = IF handle = "pending" THEN "rejected" ELSE handle
    /\ timers' = InitialOnError(OnError(timers))
    /\ last' = Idle("error")
    /\ UNCHANGED <<exec, peer, cfg, reconnected, stopped, processedMessages,
                   seenSinceClear, clears, emitted, receipts, clock>>
ErrorInitial ==
    /\ ws \in {"CONNECTING", "OPEN"}
    /\ Population < MaxPop
    /\ ws' = "CLOSING"
    /\ timers' = InitialOnError(OnError(timers))
    /\ last' = Idle("error")
    /\ UNCHANGED <<exec, peer, cfg, handle, reconnected, stopped, processedMessages,
                   seenSinceClear, clears, emitted, receipts, clock>>

\* 'error' on a later socket, lines 236-239
ErrorReconnected(st) ==
    /\ st \in {"CONNECTING", "OPEN"}
    /\ reconnected[st] > 0
    /\ Population < MaxPop
    /\ reconnected' = [reconnected EXCEPT ![st] = @ - 1, !["CLOSING"] = @ + 1]
    /\ timers' = OnError(timers)
    /\ last' = Idle("error")
    /\ UNCHANGED <<exec, peer, cfg, handle, ws, stopped, processedMessages,
                   seenSinceClear, clears, emitted, receipts, clock>>

\* 'close' on the first socket, lines 241-244
CloseInitial ==
    /\ ws \in {"OPEN", "CLOSING"}
    /\ ws' = "CLOSED"
    /\ timers' = OnClose(timers)
    /\ last' = Idle("close")
    /\ UNCHANGED <<exec, peer, cfg, handle, reconnected, stopped, processedMessages,
                   seenSinceClear, clears, emitted, receipts, clock>>

\* 'close' on a later socket, lines 241-244; the closed socket has no further event
CloseReconnected(st) ==
    /\ st \in {"OPEN", "CLOSING"}
    /\ reconnected[st] > 0
    /\ reconnected' = [reconnected EXCEPT ![st] = @ - 1]
    /\ timers' = OnClose(timers)
    /\ last' = Idle("close")
    /\ UNCHANGED <<exec, peer, cfg, handle, ws, stopped, processedMessages,
                   seenSinceClear, clears, emitted, receipts, clock>>

\* One second passes.
Tick ==
    /\ \E i \in 1..Len(timers) : timers[i].age < timers[i].delay
    /\ timers' = [i \in 1..Len(timers) |->
                    [timers[i] EXCEPT !.age = Min(@ + MsPerSecond, timers[i].delay)]]
    /\ last' = Idle("tick")
    /\ UNCHANGED <<exec, peer, cfg, handle, ws, reconnected, stopped, processedMessages,
                   seenSinceClear, clears, emitted, receipts, clock>>

\* A timer whose delay has elapsed fires: connectWebSocket runs (lines 238, 243, 264)
FireTimer(i) ==
    /\ i \in 1..Len(timers)
    /\ timers[i].age >= timers[i].delay
    /\ timers' = RemoveAt(timers, i)
    /\ reconnected' = connectWebSocket(reconnected)
    /\ processedMessages' = WindowOnConnect(processedMessages)
    /\ last' = [Idle("connect") EXCEPT !.timer = timers[i]]
    /\ UNCHANGED <<exec, peer, cfg, handle, ws, stopped,
                   seenSinceClear, clears, emitted, receipts, clock>>

\* The host calls closeFunction of the handle it was given, lines 255-258
Stop ==
    /\ handle = "resolved"
    /\ ws' = closeFunction(ws)
    /\ stopped' = TRUE
    /\ timers' = [i \in 1..Len(timers) |-> [timers[i] EXCEPT !.pendingAtStop = TRUE]]
    /\ last' = [Idle("stop") EXCEPT !.outcome = IF stopped THEN "again" ELSE "first"]
    /\ UNCHANGED <<exec, peer, cfg, handle, reconnected, processedMessages,
                   seenSinceClear, clears, emitted, receipts, clock>>

\* The second trigger() call: its first socket, the frames on it, its close and the
\* socket its reconnect timer makes.
PeerTrigger ==
    /\ peer.ws = "NONE"
    /\ peer' = [peer EXCEPT !.ws = "CONNECTING"]
    /\ last' = Idle("peer trigger")
    /\ UNCHANGED <<exec, cfg, handle, ws, reconnected, timers, stopped, processedMessages,
                   seenSinceClear, clears, emitted, receipts, clock>>

PeerOpen ==
    /\ peer.ws = "CONNECTING"
    /\ peer' = [peer EXCEPT !.ws = "OPEN"]
    /\ last' = Idle("peer open")
    /\ UNCHANGED <<exec, cfg, handle, ws, reconnected, timers, stopped, processedMessages,
                   seenSinceClear, clears, emitted, receipts, clock>>

PeerClose ==
    /\ peer.ws = "OPEN"
    /\ peer' = [peer EXCEPT !.ws = "CLOSED"]
    /\ last' = Idle("peer close")
    /\ UNCHANGED <<exec, cfg, handle, ws, reconnected, timers, stopped, processedMessages,
                   seenSinceClear, clears, emitted, receipts, clock>>

PeerReconnect ==
    /\ peer.ws = "CLOSED"
    /\ peer' = [peer EXCEPT !.ws = "CONNECTING"]
    /\ last' = Idle("peer connect")
    /\ UNCHANGED <<exec, cfg, handle, ws, reconnected, timers, stopped, processedMessages,
                   seenSinceClear, clears, emitted, receipts, clock>>

PeerReceive(f) ==
    LET out == PeerOutcome(f)
    IN  /\ peer.ws = "OPEN"
        /\ peer' = [peer EXCEPT
               !.processedMessages =
                   IF Recorded(out) THEN Record(PeerWindow, Timestamp(f)) ELSE @,
               !.emitted =
                   IF out = "emitted" THEN Emit(@, ProcessedMessage(f)) ELSE @]
        /\ last' = [op |-> "peer message", frame |-> f, outcome |-> out, timer |-> NoTimer]
        /\ UNCHANGED <<exec, cfg, handle, ws, reconnected, timers, stopped, processedMessages,
                       seenSinceClear, clears, emitted, receipts, clock>>

----------------------------------------------------------------------------
(* The Signal node: execute() (Signal.node.ts 299-363), its operations     *)
(* (messages.ts 136-339, contacts.ts 16-56) and their retryRequest.        *)

\* the operations executeMessagesOperation knows (messages.ts 161, 219, 238, 257, 277, 303)
MessageOperations ==
    {"sendMessage", "sendAttachment", "sendReaction", "removeReaction",
     "startTyping", "stopTyping"}

\* the operations execute() hands to executeMessagesOperation (Signal.node.ts 341)
ExecuteMessageOperations ==
    {"sendMessage", "sendReaction", "removeReaction", "startTyping", "stopTyping"}

\* an operation execute() hands to a function with no parameter check (Signal.node.ts 347)
OtherOperations == {"getContacts"}

Operations == MessageOperations \cup OtherOperations \cup {"bogus"}

Recipients == {"", "+1"}

NoError == [kind |-> "none", message |-> "", attempt |-> 0]

\* new NodeApiError(...) of messages.ts 163, 330, 333 and Signal.node.ts 350; attempt is
\* the invocation of the request whose error it wraps, 0 when it wraps none
NodeApiError(message, attempt) ==
    [kind |-> "NodeApiError", message |-> message, attempt |-> attempt]

NoExec ==
    [phase |-> "idle", caller |-> "none", operation |-> "none", recipients |-> <<>>,
     i |-> 0, returnData |-> <<>>, attempt |-> 0, requests |-> 0, waits |-> 0,
     calls |-> <<>>, failed |-> {}, error |-> NoError]

\* messages.ts 162, 220, 239, 258, 278, 304: if (!recipient) throw
RecipientRequiredToSend(operation) == operation \in {"sendMessage", "sendAttachment"}
RecipientRequired(operation) == operation \in MessageOperations

\* executeMessagesOperation up to its first await (messages.ts 160-330): the request
\* goes out, or an error is thrown
executeMessagesOperation(operation, recipient) ==
    IF operation \in MessageOperations
    THEN IF RecipientRequired(operation) /\ recipient = ""
         THEN "Recipient is required"
         ELSE "request"
    ELSE "Unknown operation"

\* Signal.node.ts 341-351: the function the operation is handed to
Dispatch(operation, recipient) ==
    IF operation \in ExecuteMessageOperations
    THEN executeMessagesOperation(operation, recipient)
    ELSE IF operation \in OtherOperations THEN "request"
    ELSE "Unknown operation"

\* retryRequest, messages.ts 150: for (attempt = 1; attempt <= retries; attempt++)
InLoop(attempt) == attempt <= DefaultRetries

\* retryRequest, messages.ts 154: if (attempt === retries) throw error
IsFirstAttempt(attempt) == attempt = 1
IsLastAttempt(attempt) == attempt = DefaultRetries

\* retryRequest is called: its first request() goes out (messages.ts 149-152)
retryRequest(e) ==
    [e EXCEPT !.phase = "request", !.attempt = 1, !.requests = 1, !.waits = 0,
              !.calls = <<>>]

\* the function called directly throws to its caller
Throw(e, error) == [e EXCEPT !.phase = "threw", !.error = error]

\* execute()'s catch, Signal.node.ts 355-358: log and rethrow
OnItemErrorContinue(e, error) ==
    [e EXCEPT !.phase = "loop", !.i = @ + 1, !.error = error,
              !.attempt = 0, !.requests = 0, !.waits = 0, !.calls = <<>>]
OnItemError(e, error) == Throw(e, error)

Fail(e, error) ==
    LET f == [e EXCEPT !.failed = @ \cup {e.i}]
    IN  IF e.caller = "execute" THEN OnItemError(f, error) ELSE Throw(f, error)

\* the operation's return (messages.ts 218 ...) and returnData.push (Signal.node.ts 354)
Result(e) ==
    LET r == [item |-> e.i, attempt |-> e.attempt]
    IN  IF e.caller = "execute"
        THEN [e EXCEPT !.phase = "loop", !.returnData = Append(@, r), !.i = @ + 1,
                       !.attempt = 0, !.requests = 0, !.waits = 0, !.calls = <<>>]
        ELSE [e EXCEPT !.phase = "returned", !.returnData = <<r>>]

\* execute() is called (Signal.node.ts 299-309)
Execute(operation, recipients, credentialsOk) ==
    /\ exec.phase = "idle"
    /\ exec' =
         IF credentialsOk
         THEN [exec EXCEPT !.phase = "loop", !.caller = "execute",
                           !.operation = operation, !.recipients = recipients]
         ELSE Throw([exec EXCEPT !.caller = "execute", !.operation = operation,
                                 !.recipients = recipients],
                    [kind |-> "host", message |-> "credentials", attempt |-> 0])
    /\ UNCHANGED triggerVars

\* one turn of the for loop (Signal.node.ts 311-351), or the return (361-362)
NextItem ==
    /\ exec.phase = "loop"
    /\ exec' =
         IF exec.i >= Len(exec.recipients)
         THEN [exec EXCEPT !.phase = "returned"]
         ELSE LET verdict == Dispatch(exec.operation, exec.recipients[exec.i + 1])
              IN  IF verdict = "request" THEN retryRequest(exec)
                  ELSE Fail(exec, NodeApiError(verdict, 0))
    /\ UNCHANGED triggerVars

\* executeMessagesOperation is called by itself, for one item (messages.ts 136-166)
CallMessagesOperation(operation, recipient) ==
    /\ exec.phase = "idle"
    /\ LET e == [exec EXCEPT !.caller = "direct", !.operation = operation,
                             !.recipients = <<recipient>>]
           verdict == executeMessagesOperation(operation, recipient)
       IN  exec' = IF verdict = "request" THEN retryRequest(e)
                   ELSE Fail(e, NodeApiError(verdict, 0))
    /\ UNCHANGED triggerVars

\* the request settles (messages.ts 152-155): its result is returned, or its error is
\* thrown after the last attempt, or the delay starts
Respond(ok) ==
    /\ exec.phase = "request"
    /\ LET e == [exec EXCEPT !.calls = Append(@, IF ok THEN "ok" ELSE "fail")]
       IN  exec' =
             IF ok THEN Result(e)
             ELSE IF IsLastAttempt(exec.attempt)
                  THEN Fail(e, NodeApiError("request failed", exec.attempt))
                  ELSE [e EXCEPT !.phase = "wait", !.waits = @ + 1]
    /\ UNCHANGED triggerVars

\* the delay is over (messages.ts 155, 150): the next attempt, or the end of the loop
\* with no response, whose .data the operation then reads (messages.ts 217)
DelayElapsed ==
    /\ exec.phase = "wait"
    /\ exec' =
         IF InLoop(exec.attempt + 1)
         THEN [exec EXCEPT !.phase = "request", !.attempt = @ + 1, !.requests = @ + 1]
         ELSE Fail(exec, NodeApiError("response is undefined", 0))
    /\ UNCHANGED triggerVars

----------------------------------------------------------------------------
(* Specifications.                                                         *)

InitWith(configs) ==
    /\ cfg \in configs
    /\ handle = "unstarted"
    /\ ws = "NONE"
    /\ reconnected = NoSockets
    /\ timers = <<>>
    /\ stopped = FALSE
    /\ processedMessages = {}
    /\ seenSinceClear = {}
    /\ clears = 0
    /\ emitted = <<>>
    /\ receipts = <<>>
    /\ clock = 1
    /\ peer = NoPeer
    /\ exec = NoExec
    /\ last = Idle("none")

\* {message: "hi"}
TextContent == [message |-> "hi", attachments |-> NoList, reactions |-> NoList]

\* {attachments: ["a1"]}
AttachmentContent == [message |-> Undefined, attachments |-> <<"a1">>, reactions |-> NoList]

\* {envelope: {timestamp: ts, sourceUuid: "A", dataMessage: {message: "hi"}}}
IncomingText(ts) == MakeFrame(TRUE, ts, "data", "A", Undefined, TextContent)

\* the account's own message to "B", echoed back: a sync wrapper with one attachment
OutgoingEcho(ts) == MakeFrame(TRUE, ts, "sync", "A", "B", AttachmentContent)

\* the frame of the example: {envelope: {timestamp: 100, dataMessage: {message: "hi"}}}
ExampleTimestamp == 100
ExampleFrame == MakeFrame(TRUE, ExampleTimestamp, "data", Undefined, Undefined, TextContent)

\* frames whose envelope has no timestamp
NoTimestampText == MakeFrame(TRUE, Absent, "data", "A", Undefined, TextContent)
NoTimestampAttachment == MakeFrame(TRUE, Absent, "data", "B", Undefined, AttachmentContent)

Lifecycle ==
    \/ \E c \in BOOLEAN : Trigger(c)
    \/ OpenInitial
    \/ OpenReconnected
    \/ ErrorInitial
    \/ \E st \in LiveStates : ErrorReconnected(st)
    \/ CloseInitial
    \/ \E st \in LiveStates : CloseReconnected(st)
    \/ Tick
    \/ \E i \in 1..Len(timers) : FireTimer(i)
    \/ Stop

(* Spec: the whole life cycle, under every reconnect delay, with read        *)
(* receipts on; the frames are an incoming text and a frame that does not    *)
(* parse.                                                                    *)

SpecConfigs ==
    { c \in Config : /\ ~c.ignoreMessages /\ ~c.ignoreAttachments
                     /\ ~c.ignoreReactions /\ c.markAsRead }

SpecFrames == {NoFrame, IncomingText(1)}

Init == InitWith(SpecConfigs)

Next ==
    \/ Lifecycle
    \/ \E f \in SpecFrames : Receive(f, FALSE) /\ UNCHANGED clock
    \/ \E i \in 1..Len(receipts), r \in {"ok", "status", "throw"} : ReceiptSettles(i, r)

Spec == Init /\ [][Next]_vars

(* SpecLive: Spec, with time passing and due timers firing (the event loop  *)
(* runs a due timer; nothing in the program cancels or blocks one).          *)

SpecLive ==
    /\ Spec
    /\ WF_vars(Tick)
    /\ WF_vars(\E i \in 1..Len(timers) : FireTimer(i))

(* SpecWindow: the dedup window up to and past its capacity. Senders' clocks *)
(* hand out increasing timestamps; the frames with the first MaxTs of them   *)
(* are incoming texts or echoes of sent messages, and may be sent again at   *)
(* any time; the later ones are echoes of the account's own sent messages.   *)
(* Connections open, close and are reconnected; no socket error, no stop.    *)

WindowConfigs ==
    { c \in SpecConfigs : c.reconnectDelay = MinDelay }

InitWindow == InitWith(WindowConfigs)

FreshFrames ==
    IF clock <= MaxTs THEN {IncomingText(clock), OutgoingEcho(clock)}
    ELSE {OutgoingEcho(clock)}

ReplayFrames ==
    { IncomingText(ts) : ts \in 1..Min(MaxTs, clock - 1) }
    \cup { OutgoingEcho(ts) : ts \in 1..Min(MaxTs, clock - 1) }

ReceiveFresh ==
    /\ clock <= maxMessages + WindowExtra
    /\ \E f \in FreshFrames : Receive(f, FALSE)
    /\ clock' = clock + 1

ReceiveReplay ==
    /\ \E f \in ReplayFrames : Receive(f, FALSE)
    /\ UNCHANGED clock

NextWindow ==
    \/ Trigger(TRUE)
    \/ OpenInitial
    \/ CloseInitial
    \/ Tick
    \/ \E i \in 1..Len(timers) : FireTimer(i)
    \/ OpenReconnected
    \/ \E st \in LiveStates : CloseReconnected(st)
    \/ ReceiveFresh
    \/ ReceiveReplay
    \/ \E i \in 1..Len(receipts) : ReceiptSettles(i, "ok")

SpecWindow == InitWindow /\ [][NextWindow]_vars

(* SpecHandler: the message handler on the first socket, under every       *)
(* combination of the four flags. The first frame that parses comes with    *)
(* timestamp 1 in every shape, with every sender and recipient and every    *)
(* content; after it come an incoming text and an echo with that timestamp  *)
(* again and an incoming text with a later one. The first frame may also be *)
(* the example frame (timestamp 100, only a text) or a frame without a      *)
(* timestamp; after a frame without timestamp come further ones. Frames     *)
(* that do not parse come at any time, and this.emit may raise.             *)

HandlerConfigs == { c \in Config : c.reconnectDelay = MinDelay }

InitHandler == InitWith(HandlerConfigs)

Shapes == {"data", "sync", "data+sync", "sync-nosent", "none"}

Contents ==
    { [message |-> m, attachments |-> a, reactions |-> r] :
        m \in {"", "hi"}, a \in {<<>>, <<"a1">>}, r \in {<<>>, <<"r1">>} }
    \cup {EmptyContent, TextContent, AttachmentContent}

FirstFrames ==
    { MakeFrame(TRUE, 1, shape, src, dst, c) :
        shape \in Shapes, src \in {"A", Undefined}, dst \in {"A", "B"},
        c \in Contents }

LaterFrames == {IncomingText(1), OutgoingEcho(1), IncomingText(MaxTs + 1)}

NoTimestampFrames == {NoTimestampText, NoTimestampAttachment}

HandlerFrames ==
    {NoFrame}
    \cup (IF processedMessages = {}
          THEN FirstFrames \cup {ExampleFrame} \cup NoTimestampFrames
          ELSE IF 0 \in processedMessages THEN NoTimestampFrames ELSE LaterFrames)

NextHandler ==
    \/ Trigger(TRUE)
    \/ OpenInitial
    \/ \E f \in HandlerFrames, t \in BOOLEAN : Receive(f, t) /\ UNCHANGED clock
    \/ \E i \in 1..Len(receipts), r \in {"ok", "status", "throw"} : ReceiptSettles(i, r)

SpecHandler == InitHandler /\ [][NextHandler]_vars

(* SpecPair: two trigger() calls with the default flags, each with the     *)
(* whole life cycle of its first socket; the first one also with errors,    *)
(* timers, reconnected sockets and stop. Both are sent the same frame.      *)

PairConfigs ==
    { c \in Config : /\ c.reconnectDelay = MinDelay
                     /\ ~c.ignoreMessages /\ ~c.ignoreAttachments
                     /\ ~c.ignoreReactions /\ ~c.markAsRead }

InitPair == InitWith(PairConfigs)

PairFrames == {IncomingText(1)}

NextPair ==
    \/ Lifecycle
    \/ \E f \in PairFrames : Receive(f, FALSE) /\ UNCHANGED clock
    \/ PeerTrigger
    \/ PeerOpen
    \/ PeerClose
    \/ PeerReconnect
    \/ \E f \in PairFrames : PeerReceive(f)

SpecPair == InitPair /\ [][NextPair]_vars

(* SpecDelay: the reconnect delay at both ends of its declared range (lines *)
(* 38-39): the first socket opens, fails or closes, the timers run out and  *)
(* the sockets they make open and close in turn. No frames, no stop.        *)

DelayConfigs ==
    { [c EXCEPT !.reconnectDelay = d] : c \in PairConfigs, d \in {MinDelay, MaxValue} }

InitDelay == InitWith(DelayConfigs)

NextDelay ==
    \/ Trigger(TRUE)
    \/ OpenInitial
    \/ ErrorInitial
    \/ CloseInitial
    \/ Tick
    \/ \E i \in 1..Len(timers) : FireTimer(i)
    \/ OpenReconnected
    \/ \E st \in LiveStates : CloseReconnected(st)

SpecDelay == InitDelay /\ [][NextDelay]_vars

(* SpecNode: one execute() over up to MaxItems items, or one direct call of *)
(* executeMessagesOperation, with every operation name, empty and non-empty  *)
(* recipients, and requests that succeed or fail.                            *)

ItemLists ==
    UNION { [1..n -> Recipients] : n \in 0..MaxItems }

InitNode == InitWith(PairConfigs)

NextNode ==
    \/ \E op \in Operations, rs \in ItemLists, c \in BOOLEAN : Execute(op, rs, c)
    \/ \E op \in Operations, r \in Recipients : CallMessagesOperation(op, r)
    \/ NextItem
    \/ \E ok \in BOOLEAN : Respond(ok)
    \/ DelayElapsed

SpecNode == InitNode /\ [][NextNode]_vars

----------------------------------------------------------------------------
(* The life cycle: stop() and reconnection (Spec, SpecLive).               *)

\* C1: once stop() has been called, connectWebSocket is never called again.
C1_NoConnectAfterStop == ~(stopped /\ last.op = "connect")

\* C2: after stop() no socket of this relay is Connecting or Open.
C2_StopClosesConnection == stopped => Live("CONNECTING") + Live("OPEN") = 0

\* C3: a reconnect timer that was pending when stop() was called never opens a connection.
C3_StopCancelsPendingReconnect == ~(last.op = "connect" /\ last.timer.pendingAtStop)

\* C4: every close and every error schedules a reconnect with the one configured delay,
\* no connection is attempted before that delay has elapsed since it was scheduled, and
\* every scheduled reconnect is eventually attempted, without end.
C4_ReconnectAfterDelay ==
    /\ [][/\ last'.op = "close" => Len(timers') = Len(timers) + 1
          /\ last'.op = "error" => Len(timers') > Len(timers)]_vars
    /\ [](\A i \in 1..Len(timers) : timers[i].delay = reconnectDelay)
    /\ [](last.op = "connect" =>
            last.timer.delay = reconnectDelay /\ last.timer.age >= reconnectDelay)
    /\ (last.op \in {"close", "error"}) ~> (last.op = "connect")
    /\ (Len(timers) > 0) ~> (last.op = "connect")

\* C4's case: before any stop, under the longest delay, a socket has closed and the
\* timer of its close has fired after the delay.
C4_Witness ==
    /\ ~stopped
    /\ cfg.reconnectDelay = MaxDelay
    /\ ws = "CLOSED"
    /\ last.op = "connect"
    /\ last.timer.age = MaxDelay * MsPerSecond

\* C5: at most one socket is Connecting or Open and at most one reconnect timer is pending.
C5_SingleStream == Live("CONNECTING") + Live("OPEN") <= 1 /\ Len(timers) <= 1

----------------------------------------------------------------------------
(* The dedup window (SpecWindow).                                          *)

Delivered(ts) == { i \in 1..Len(emitted) : emitted[i].event.timestamp = ts }

\* The frame passes classification, the emptiness check and the filters.
Passes(f) ==
    /\ ShouldProcess(f)
    /\ ~IsEmpty(ProcessedMessage(f))
    /\ ~IsIgnored(ProcessedMessage(f))

\* C6 as stated: no timestamp is delivered downstream more than once.
C6_AtMostOnce ==
    \A i, j \in 1..Len(emitted) :
        emitted[i].event.timestamp = emitted[j].event.timestamp => i = j

\* C6 as amended: no timestamp is delivered more than once unless the capacity rule
\* cleared the window between the two deliveries.
C6_AtMostOncePerWindow ==
    \A i, j \in 1..Len(emitted) :
        /\ emitted[i].event.timestamp = emitted[j].event.timestamp
        /\ emitted[i].epoch = emitted[j].epoch
        => i = j

\* C6's case: timestamp 1 was delivered on the first socket and arrived again, as the
\* same frame, on a reconnected socket, with no clear in between: it was delivered once.
C6_Witness ==
    /\ clears = 0
    /\ ws = "CLOSED"
    /\ reconnected["OPEN"] = 1
    /\ last.op = "message"
    /\ last.frame = IncomingText(1)
    /\ last.outcome = "duplicate"
    /\ Cardinality(Delivered(1)) = 1

\* C7: a frame whose timestamp already arrived since the window was last cleared is
\* discarded as a duplicate: nothing is emitted and no read receipt is sent for it,
\* whatever it carries.
C7_SecondFrameDiscarded ==
    [][(/\ last'.op = "message"
        /\ last'.frame.ok
        /\ Timestamp(last'.frame) \in seenSinceClear)
       => (/\ last'.outcome = "duplicate"
           /\ emitted' = emitted
           /\ receipts' = receipts)]_vars

\* C7's case: timestamp 1 was delivered as an incoming text with its read receipt still
\* in flight, then arrived again as a different frame (an echo with an attachment),
\* which was discarded.
C7_Witness ==
    /\ clears = 0
    /\ last.op = "message"
    /\ last.frame = OutgoingEcho(1)
    /\ last.outcome = "duplicate"
    /\ Len(emitted) = 1
    /\ emitted[1].event.messageText = "hi"
    /\ Len(receipts) = 1

\* C8: the window never holds more than maxMessages timestamps, and a timestamp recorded
\* when it holds maxMessages leaves the window holding that timestamp alone.
C8_WindowBounded ==
    /\ [](Cardinality(processedMessages) <= maxMessages)
    /\ [][(/\ Cardinality(processedMessages) = maxMessages
           /\ processedMessages' # processedMessages)
          => (/\ last'.op = "message"
              /\ processedMessages' = {Timestamp(last'.frame)})]_vars

\* C8's case: the window was full and the next timestamp has just been recorded.
C8_Witness ==
    /\ clears = 1
    /\ last.op = "message"
    /\ last.frame = OutgoingEcho(maxMessages + 1)
    /\ processedMessages = {maxMessages + 1}

\* C9: when the frame with the (maxMessages + 1)st distinct timestamp has been handled,
\* it was not treated as a duplicate and the window holds exactly its timestamp.
C9_NextAfterFullAccepted ==
    (/\ last.op = "message"
     /\ clock = maxMessages + 2
     /\ Timestamp(last.frame) = maxMessages + 1)
    => (/\ last.outcome # "duplicate"
        /\ processedMessages = {maxMessages + 1})

\* C9's case: maxMessages + 1 distinct timestamps have arrived, the last just now, and
\* the window was cleared once.
C9_Witness ==
    /\ last.op = "message"
    /\ clock = maxMessages + 2
    /\ Timestamp(last.frame) = maxMessages + 1
    /\ last.outcome = "skipped"
    /\ clears = 1
    /\ Cardinality(processedMessages) = 1

\* C10: once the window has been cleared, a frame whose timestamp was seen before the
\* clear and not since is recorded again and, if it passes classification and the
\* filters, is emitted again.
C10_RedeliveredAfterClear ==
    [][(/\ last'.op = "message"
        /\ last'.frame.ok
        /\ clears >= 1
        /\ clock' = clock
        /\ Timestamp(last'.frame) < clock
        /\ Timestamp(last'.frame) \notin seenSinceClear)
       => (/\ last'.outcome # "duplicate"
           /\ Timestamp(last'.frame) \in processedMessages'
           /\ Passes(last'.frame) =>
                emitted' = Append(emitted, [event |-> ProcessedMessage(last'.frame),
                                            epoch |-> clears']))]_vars

\* C10's case: timestamp 1 was delivered before the clear and again after it.
C10_Witness ==
    /\ clears = 1
    /\ last.op = "message"
    /\ last.frame = IncomingText(1)
    /\ last.outcome = "emitted"
    /\ Cardinality(Delivered(1)) = 2
    /\ emitted[1].epoch = 0
    /\ emitted[Len(emitted)].epoch = 1

----------------------------------------------------------------------------
(* What a frame carries, read off the frame itself.                        *)

\* the payload the frame carries: the direct inbound one, else the sync wrapper's
Carried(f) == IF f.hasDataMessage THEN f.dataMessage ELSE f.sentMessage

HasText(c) == c.message \notin {"", Undefined}
HasAttachments(c) == c.attachments \notin {<<>>, NoList}
HasReactions(c) == c.reactions \notin {<<>>, NoList}

NonEmpty(c) == HasText(c) \/ HasAttachments(c) \/ HasReactions(c)

\* an enabled ignore flag matches the content
FlagMatches(c) ==
    \/ cfg.ignoreMessages /\ HasText(c)
    \/ cfg.ignoreAttachments /\ HasAttachments(c)
    \/ cfg.ignoreReactions /\ HasReactions(c)

\* Incoming (a direct inbound payload) or SelfNote (a sync wrapper sent to oneself)
Classified(f) ==
    f.hasDataMessage \/ (f.hasSyncMessage /\ f.sourceUuid = f.destinationUuid)

\* the handler got as far as calling this.emit
EmitCalled(l) == l.outcome \in {"emitted", "emit_error"}

LastEmitted(log) == log[Len(log)].event

----------------------------------------------------------------------------
(* The window across connections (Spec).                                   *)

\* C11: only the message handler changes the dedup window -- open, close, error,
\* reconnect, stop() and a settled read receipt leave it as it is -- so every timestamp
\* handled since the last clear is still in the window, on whatever connection it came.
C11_WindowOnlyChangedByFrames ==
    /\ [][processedMessages' # processedMessages => last'.op = "message"]_vars
    /\ [](seenSinceClear \subseteq processedMessages)

\* C11's case: timestamp 1 was recorded on the first socket; that socket closed, a
\* reconnected one opened, stop() was called, and the timestamp, arriving again, was
\* dropped as a duplicate.
C11_Witness ==
    /\ ws = "CLOSED"
    /\ reconnected["OPEN"] >= 1
    /\ stopped
    /\ last.op = "message"
    /\ last.frame = IncomingText(1)
    /\ last.outcome = "duplicate"
    /\ processedMessages = {1}

----------------------------------------------------------------------------
(* Classification, filters, emit and read receipt (SpecHandler).           *)

\* C12: a frame with a fresh timestamp, a sync wrapper and no direct payload is emitted
\* as self_note if sourceUuid = destinationUuid and its content is non-empty and matches
\* no enabled ignore flag; if sourceUuid # destinationUuid it is never emitted.
C12_SyncFrames ==
    [][(/\ last'.op = "message"
        /\ last'.frame.ok
        /\ ~last'.frame.hasDataMessage
        /\ last'.frame.hasSyncMessage
        /\ Timestamp(last'.frame) \notin processedMessages)
       => IF last'.frame.sourceUuid = last'.frame.destinationUuid
          THEN (NonEmpty(last'.frame.sentMessage) /\ ~FlagMatches(last'.frame.sentMessage))
               => /\ EmitCalled(last')
                  /\ last'.outcome = "emitted" =>
                        /\ Len(emitted') = Len(emitted) + 1
                        /\ LastEmitted(emitted').messageType = "self_note"
          ELSE /\ ~EmitCalled(last')
               /\ emitted' = emitted]_vars

\* C12's case: a text the account sent to itself has been emitted as self_note.
C12_Witness ==
    /\ last.op = "message"
    /\ last.frame = MakeFrame(TRUE, 1, "sync", "A", "A", TextContent)
    /\ last.outcome = "emitted"
    /\ Len(emitted) = 1
    /\ emitted[1].event.messageType = "self_note"

\* C13: a fresh frame with a direct inbound payload (with or without a sync wrapper)
\* that is non-empty and not filtered is emitted as incoming; a frame with neither a
\* direct payload nor a sync wrapper is never emitted; every emitted event is incoming
\* or self_note.
C13_Classification ==
    /\ [][(/\ last'.op = "message"
           /\ last'.frame.ok
           /\ last'.frame.hasDataMessage
           /\ Timestamp(last'.frame) \notin processedMessages
           /\ NonEmpty(last'.frame.dataMessage)
           /\ ~FlagMatches(last'.frame.dataMessage))
          => /\ EmitCalled(last')
             /\ last'.outcome = "emitted" =>
                   /\ Len(emitted') = Len(emitted) + 1
                   /\ LastEmitted(emitted').messageType = "incoming"]_vars
    /\ [][(/\ last'.op = "message"
           /\ last'.frame.ok
           /\ ~last'.frame.hasDataMessage
           /\ ~last'.frame.hasSyncMessage)
          => (~EmitCalled(last') /\ emitted' = emitted)]_vars
    /\ [](\A i \in 1..Len(emitted) :
            emitted[i].event.messageType \in {"incoming", "self_note"})

\* C13's case: a frame with a direct payload and a sync wrapper addressed to another
\* account has been emitted as incoming.
C13_Witness ==
    /\ last.op = "message"
    /\ last.frame = MakeFrame(TRUE, 1, "data+sync", "A", "B", TextContent)
    /\ last.outcome = "emitted"
    /\ emitted[1].event.messageType = "incoming"

\* C14: a frame with no text, no attachment and no reaction is never emitted, under
\* every combination of the flags and in every shape.
C14_EmptyNeverEmitted ==
    [][(/\ last'.op = "message"
        /\ last'.frame.ok
        /\ ~NonEmpty(Carried(last'.frame)))
       => (~EmitCalled(last') /\ emitted' = emitted /\ receipts' = receipts)]_vars

\* C14's case: with no ignore flag set and read receipts on, an incoming frame with a
\* fresh timestamp and no content was dropped by the emptiness check.
C14_Witness ==
    /\ ~cfg.ignoreMessages /\ ~cfg.ignoreAttachments /\ ~cfg.ignoreReactions
    /\ cfg.markAsRead
    /\ last.op = "message"
    /\ last.frame = MakeFrame(TRUE, 1, "data", "A", Undefined, EmptyContent)
    /\ last.outcome = "empty"
    /\ emitted = <<>>

\* C15: a non-empty frame that reaches the filter is dropped by it exactly when an
\* enabled ignore flag matches some content class it carries.
C15_Filter ==
    [][(/\ last'.op = "message"
        /\ last'.frame.ok
        /\ Timestamp(last'.frame) \notin processedMessages
        /\ Classified(last'.frame)
        /\ NonEmpty(Carried(last'.frame)))
       => /\ last'.outcome = "ignored" <=> FlagMatches(Carried(last'.frame))
          /\ FlagMatches(Carried(last'.frame)) => emitted' = emitted
          /\ ~FlagMatches(Carried(last'.frame)) => EmitCalled(last')]_vars

\* C15's case: ignoreAttachments alone is set and a frame with a text and an attachment
\* was dropped as a whole.
C15_Witness ==
    /\ cfg.ignoreAttachments /\ ~cfg.ignoreMessages /\ ~cfg.ignoreReactions
    /\ last.op = "message"
    /\ last.frame = MakeFrame(TRUE, 1, "data", "A", Undefined,
                              [message |-> "hi", attachments |-> <<"a1">>, reactions |-> <<>>])
    /\ last.outcome = "ignored"
    /\ emitted = <<>>

\* C16: this.emit is called for a frame if and only if the frame parses, its timestamp
\* is not in the window, it is Incoming or SelfNote, it is non-empty and no enabled
\* ignore flag matches it; the call hands over exactly one event, the frame's.
C16_EmittedIff ==
    [][last'.op = "message"
       => /\ EmitCalled(last') <=>
                /\ last'.frame.ok
                /\ Timestamp(last'.frame) \notin processedMessages
                /\ Classified(last'.frame)
                /\ NonEmpty(Carried(last'.frame))
                /\ ~FlagMatches(Carried(last'.frame))
          /\ last'.outcome = "emitted" =>
                /\ Len(emitted') = Len(emitted) + 1
                /\ SubSeq(emitted', 1, Len(emitted)) = emitted
                /\ LastEmitted(emitted').timestamp = Timestamp(last'.frame)
                /\ HasText(Carried(last'.frame)) =>
                      LastEmitted(emitted').messageText = Carried(last'.frame).message
          /\ last'.outcome # "emitted" => emitted' = emitted]_vars

\* C16's case: two frames with different timestamps have each been emitted, once.
C16_Witness ==
    /\ last.op = "message"
    /\ last.frame = IncomingText(MaxTs + 1)
    /\ last.outcome = "emitted"
    /\ Len(emitted) = 2
    /\ emitted[1].event.timestamp = 1
    /\ emitted[2].event.timestamp = MaxTs + 1

\* C17: the handler starts a read receipt exactly when markAsRead is set and it has
\* just emitted an incoming event; the receipt is keyed by that event's sourceUuid and
\* timestamp; nothing else starts one, and every receipt in flight belongs to an
\* incoming event emitted before.
C17_ReceiptIff ==
    /\ [][last'.op = "message"
          => IF cfg.markAsRead /\ last'.outcome = "emitted" /\ last'.frame.hasDataMessage
             THEN /\ Len(emitted') = Len(emitted) + 1
                  /\ receipts' = Append(receipts,
                        [recipient |-> LastEmitted(emitted').sourceUuid,
                         timestamp |-> LastEmitted(emitted').timestamp])
             ELSE receipts' = receipts]_vars
    /\ [][last'.op # "message" => Len(receipts') <= Len(receipts)]_vars
    /\ [](\A i \in 1..Len(receipts) : \E j \in 1..Len(emitted) :
            /\ emitted[j].event.messageType = "incoming"
            /\ emitted[j].event.sourceUuid = receipts[i].recipient
            /\ emitted[j].event.timestamp = receipts[i].timestamp)

\* C17's case: markAsRead is set, an incoming text from "A" with timestamp 1 has been
\* emitted and its read receipt is in flight.
C17_Witness ==
    /\ cfg.markAsRead
    /\ last.op = "message"
    /\ last.frame = IncomingText(1)
    /\ last.outcome = "emitted"
    /\ receipts = <<[recipient |-> "A", timestamp |-> 1]>>

\* C19: with read receipts in flight a frame is still handled at once: the handler is
\* enabled on an open socket, and a frame it accepts is emitted while the earlier
\* receipts stay in flight.
C19_FireAndForget ==
    /\ []((Live("OPEN") > 0 /\ Len(receipts) > 0)
            => ENABLED (Receive(IncomingText(MaxTs + 1), FALSE) /\ UNCHANGED clock))
    /\ [][(/\ last'.op = "message"
           /\ Len(receipts) > 0
           /\ last'.frame.ok
           /\ Timestamp(last'.frame) \notin processedMessages
           /\ Classified(last'.frame)
           /\ NonEmpty(Carried(last'.frame))
           /\ ~FlagMatches(Carried(last'.frame))
           /\ last'.outcome # "emit_error")
          => /\ Len(emitted') = Len(emitted) + 1
             /\ LastEmitted(emitted').timestamp = Timestamp(last'.frame)
             /\ SubSeq(receipts', 1, Len(receipts)) = receipts]_vars

\* C19's case: the receipt of the frame with timestamp 1 is still in flight and the
\* next frame has been emitted, its receipt in flight as well.
C19_Witness ==
    /\ last.op = "message"
    /\ last.frame = IncomingText(MaxTs + 1)
    /\ last.outcome = "emitted"
    /\ Len(emitted) = 2
    /\ receipts = <<[recipient |-> "A", timestamp |-> 1],
                    [recipient |-> "A", timestamp |-> MaxTs + 1]>>

----------------------------------------------------------------------------
(* Failures that must stay local (Spec).                                   *)

\* C18: a read receipt that fails (an exception or a non-success status) leaves what
\* was emitted, the sockets, the timers, the promise and the window as they are, and
\* leaves the same state as one that succeeds.
C18_FailedReceiptChangesNothing ==
    [][(last'.op = "receipt" /\ last'.outcome \in {"status", "throw"})
       => /\ UNCHANGED <<cfg, handle, ws, reconnected, timers, stopped,
                         processedMessages, seenSinceClear, clears, emitted>>
          /\ \E i \in 1..Len(receipts) : receipts' = RemoveAt(receipts, i)]_vars

\* C18's case: the receipt of an emitted event has failed with an exception; the event
\* is still emitted, the socket open, no timer pending.
C18_Witness ==
    /\ last.op = "receipt"
    /\ last.outcome = "throw"
    /\ Len(emitted) = 1
    /\ ws = "OPEN"
    /\ timers = <<>>
    /\ processedMessages = {1}

\* C20: a frame that does not parse changes nothing -- no emit, no read receipt, no
\* timer, no socket closed, the window as it was -- and leaves a socket open on which
\* the handler is enabled for the next frame.
C20_MalformedFrameIsLocal ==
    /\ [][(last'.op = "message" /\ ~last'.frame.ok)
          => /\ last'.outcome = "parse_error"
             /\ UNCHANGED <<cfg, handle, ws, reconnected, timers, stopped,
                            processedMessages, seenSinceClear, clears, emitted,
                            receipts>>]_vars
    /\ []((last.op = "message" /\ ~last.frame.ok)
            => /\ Live("OPEN") > 0
               /\ ENABLED (Receive(IncomingText(1), FALSE) /\ UNCHANGED clock))

\* C20's case: a frame that does not parse arrived on the open first socket before any
\* other frame; nothing is recorded, emitted or scheduled.
C20_Witness ==
    /\ last.op = "message"
    /\ ~last.frame.ok
    /\ last.outcome = "parse_error"
    /\ ws = "OPEN"
    /\ processedMessages = {}
    /\ emitted = <<>>
    /\ timers = <<>>

----------------------------------------------------------------------------
(* The promise of trigger() and closeFunction (Spec, SpecLive).            *)

\* C21: socket errors and closes never reject the promise trigger() returned: the
\* promise is rejected only by trigger() itself, before any socket exists, and every
\* error and every close leaves the promise as it is and sets a reconnect timer.
C21_ErrorsNeverReject ==
    /\ [][handle' = "rejected" =>
            (handle = "rejected" \/ (last'.op = "trigger" /\ ws' = "NONE"))]_vars
    /\ [][last'.op \in {"error", "close"} =>
            (handle' = handle /\ Len(timers') > Len(timers))]_vars

\* C21's case: the very first connection attempt failed before it opened; the promise
\* is still pending and the reconnect timers are set.
C21_Witness ==
    /\ last.op = "error"
    /\ handle = "pending"
    /\ ws = "CLOSING"
    /\ reconnected = NoSockets
    /\ Len(timers) = 2

\* C22: whenever some socket of the relay is open -- the first one or one made by a
\* reconnect -- the promise of trigger() is eventually resolved with the handle.
C22_HandleReturnedOnceOpen == (Live("OPEN") > 0) ~> (handle = "resolved")

\* C23: a second or later call of closeFunction changes nothing: the sockets, the
\* pending timers, the window, the promise, the emitted events and the receipts are
\* as the call found them.
C23_StopIdempotent ==
    [][(last'.op = "stop" /\ stopped)
       => /\ UNCHANGED <<ws, reconnected, processedMessages, handle, emitted, receipts>>
          /\ Len(timers') = Len(timers)
          /\ \A i \in 1..Len(timers) :
                /\ timers'[i].delay = timers[i].delay
                /\ timers'[i].age = timers[i].age]_vars

\* C23's case: closeFunction has been called a second time while the first socket
\* was still closing.
C23_Witness ==
    /\ last.op = "stop"
    /\ last.outcome = "again"
    /\ stopped
    /\ ws = "CLOSING"

\* C26: when the credential lookup fails, trigger() rejects with no socket made, no
\* timer set, nothing recorded, nothing emitted and no receipt sent, then or later.
C26_ConfigurationErrorIsFatal ==
    handle = "rejected"
        => /\ ws = "NONE"
           /\ reconnected = NoSockets
           /\ timers = <<>>
           /\ processedMessages = {}
           /\ emitted = <<>>
           /\ receipts = <<>>

\* C26's case: trigger() has run and the credential lookup failed.
C26_Witness ==
    /\ last.op = "trigger"
    /\ handle = "rejected"

----------------------------------------------------------------------------
(* Order, normalization and the dedup key (SpecHandler).                   *)

\* the dedup key and the sender as the event carries them, read off the frame
KeyOf(f) == IF f.timestamp = Absent THEN 0 ELSE f.timestamp
SenderOf(f) == IF f.sourceUuid = Undefined THEN "" ELSE f.sourceUuid

\* C24: a frame is handled in one piece, up to and including the emit, before the next
\* frame is looked at: a message step hands this.emit at most the event of the frame
\* that arrived, after all events handed over before and with the frame's timestamp
\* already recorded, and no other step emits; so the events are in the frames' order.
C24_ArrivalOrder ==
    /\ [][last'.op = "message"
          => \/ emitted' = emitted
             \/ /\ Len(emitted') = Len(emitted) + 1
                /\ SubSeq(emitted', 1, Len(emitted)) = emitted
                /\ LastEmitted(emitted').timestamp = KeyOf(last'.frame)
                /\ LastEmitted(emitted').sourceUuid = SenderOf(last'.frame)
                /\ KeyOf(last'.frame) \in processedMessages']_vars
    /\ [][last'.op # "message" => emitted' = emitted]_vars

\* C24's case: the frames with timestamps 1 and MaxTs + 1 arrived in this order and
\* were emitted in this order; the first one arrived once more and was dropped.
C24_Witness ==
    /\ last.op = "message"
    /\ last.frame = IncomingText(1)
    /\ last.outcome = "duplicate"
    /\ Len(emitted) = 2
    /\ emitted[1].event.timestamp = 1
    /\ emitted[2].event.timestamp = MaxTs + 1

\* the event of the example frame
ExampleEvent ==
    [messageText |-> "hi", attachments |-> <<>>, reactions |-> <<>>,
     sourceUuid |-> "", timestamp |-> ExampleTimestamp, messageType |-> "incoming"]

\* C27: an emitted event has the text, attachments and reactions of the frame's
\* payload and the sender and timestamp of its envelope, each absent field replaced
\* by "", by the empty list or by 0; with no flag set the example frame gives exactly
\* one event: text "hi", incoming, timestamp 100, no attachment, no reaction.
C27_Normalization ==
    /\ [][(last'.op = "message" /\ last'.outcome = "emitted")
          => LET e == LastEmitted(emitted')
                 c == Carried(last'.frame)
             IN  /\ e.messageText = (IF HasText(c) THEN c.message ELSE "")
                 /\ e.attachments = (IF HasAttachments(c) THEN c.attachments ELSE <<>>)
                 /\ e.reactions = (IF HasReactions(c) THEN c.reactions ELSE <<>>)
                 /\ e.sourceUuid = SenderOf(last'.frame)
                 /\ e.timestamp = KeyOf(last'.frame)]_vars
    /\ [][(/\ last'.op = "message"
           /\ last'.frame = ExampleFrame
           /\ ExampleTimestamp \notin processedMessages
           /\ ~cfg.ignoreMessages /\ ~cfg.ignoreAttachments /\ ~cfg.ignoreReactions
           /\ last'.outcome # "emit_error")
          => /\ Len(emitted') = Len(emitted) + 1
             /\ LastEmitted(emitted') = ExampleEvent]_vars

\* C27's case: under the default parameters the example frame has been handled and
\* the one event emitted is the example's.
C27_Witness ==
    /\ ~cfg.ignoreMessages /\ ~cfg.ignoreAttachments /\ ~cfg.ignoreReactions
    /\ ~cfg.markAsRead
    /\ last.op = "message"
    /\ last.frame = ExampleFrame
    /\ Len(emitted) = 1
    /\ emitted[1].event = ExampleEvent
    /\ receipts = <<>>

\* C28: a read receipt is requested once: a receipt that settles -- ok, a non-success
\* status or an exception -- is gone and starts no other, and a request starts only in
\* the message step that emits an event, one request for one event.
C28_NoReceiptRetry ==
    /\ [][last'.op = "receipt"
          => \E i \in 1..Len(receipts) : receipts' = RemoveAt(receipts, i)]_vars
    /\ [][Len(receipts') > Len(receipts)
          => /\ last'.op = "message"
             /\ Len(receipts') = Len(receipts) + 1
             /\ Len(emitted') = Len(emitted) + 1]_vars

\* C28's case: two incoming events were emitted; the receipt of one came back with a
\* non-success status and is gone, the other is still in flight.
C28_Witness ==
    /\ last.op = "receipt"
    /\ last.outcome = "status"
    /\ Len(emitted) = 2
    /\ Len(receipts) = 1

\* C29: the timestamp of a frame that parses and is no duplicate is in the window after
\* the step, whatever the handler then does with the frame; a frame whose timestamp is
\* in the window is dropped, whether or not anything was ever emitted for it.
C29_RecordedBeforeClassified ==
    /\ [][(/\ last'.op = "message"
           /\ last'.frame.ok
           /\ KeyOf(last'.frame) \notin processedMessages)
          => KeyOf(last'.frame) \in processedMessages']_vars
    /\ [][(/\ last'.op = "message"
           /\ last'.frame.ok
           /\ KeyOf(last'.frame) \in processedMessages)
          => /\ last'.outcome = "duplicate"
             /\ emitted' = emitted
             /\ processedMessages' = processedMessages]_vars

\* C29's case: with read receipts on and attachments ignored, an incoming text with
\* timestamp 1 was dropped as a duplicate although nothing was emitted and no receipt
\* sent: the frame that took the timestamp was discarded.
C29_Witness ==
    /\ cfg.ignoreAttachments /\ ~cfg.ignoreMessages /\ ~cfg.ignoreReactions
    /\ cfg.markAsRead
    /\ last.op = "message"
    /\ last.frame = IncomingText(1)
    /\ last.outcome = "duplicate"
    /\ processedMessages = {1}
    /\ emitted = <<>>

\* C30: a frame whose envelope has no timestamp is handled with key 0: if 0 is not in
\* the window the step puts it there, and if it is the frame is dropped as a duplicate,
\* whatever it carries.
C30_NoTimestampIsKeyZero ==
    [][(/\ last'.op = "message"
        /\ last'.frame.ok
        /\ last'.frame.timestamp = Absent)
       => IF 0 \in processedMessages
          THEN /\ last'.outcome = "duplicate"
               /\ emitted' = emitted
               /\ receipts' = receipts
               /\ processedMessages' = processedMessages
          ELSE 0 \in processedMessages']_vars

\* C30's case: a text without timestamp was emitted with timestamp 0; then an
\* attachment from another sender, also without timestamp, was dropped as a duplicate.
C30_Witness ==
    /\ last.op = "message"
    /\ last.frame = NoTimestampAttachment
    /\ last.outcome = "duplicate"
    /\ processedMessages = {0}
    /\ Len(emitted) = 1
    /\ emitted[1].event.messageText = "hi"
    /\ emitted[1].event.timestamp = 0

----------------------------------------------------------------------------
(* Two trigger() calls (SpecPair).                                         *)

PeerOps == {"peer trigger", "peer open", "peer close", "peer connect", "peer message"}

\* C25: a step of one trigger() call leaves the sockets, timers, window and emitted
\* events of the other as they are, and a frame whose timestamp the second call has not
\* recorded is emitted by it whether or not the first call has recorded that timestamp.
C25_InstancesIndependent ==
    /\ [][last'.op \in PeerOps
          => UNCHANGED <<handle, ws, reconnected, timers, stopped, processedMessages,
                         seenSinceClear, clears, emitted, receipts>>]_vars
    /\ [][last'.op \notin PeerOps => peer' = peer]_vars
    /\ [][(/\ last'.op = "peer message"
           /\ last'.frame = IncomingText(1)
           /\ 1 \notin peer.processedMessages)
          => /\ Len(peer'.emitted) = Len(peer.emitted) + 1
             /\ peer'.emitted[Len(peer'.emitted)].timestamp = 1
             /\ peer'.processedMessages = peer.processedMessages \cup {1}]_vars

\* C25's case: the first call recorded and emitted timestamp 1 and was stopped; the
\* second call then got the frame with timestamp 1 and emitted it as well.
C25_Witness ==
    /\ processedMessages = {1}
    /\ Len(emitted) = 1
    /\ stopped
    /\ last.op = "peer message"
    /\ last.frame = IncomingText(1)
    /\ last.outcome = "emitted"
    /\ peer.processedMessages = {1}
    /\ Len(peer.emitted) = 1

----------------------------------------------------------------------------
(* this.emit raising, and sync wrappers without a sent message             *)
(* (SpecHandler).                                                          *)

\* C31: when this.emit raises, the handler swallows it: the sockets, the timers and the
\* promise are as before, no read receipt is sent, the frame's timestamp is in the
\* window, and the same frame arriving next is dropped as a duplicate.
C31_EmitErrorSwallowed ==
    /\ [][(last'.op = "message" /\ last'.outcome = "emit_error")
          => /\ UNCHANGED <<handle, ws, reconnected, timers, stopped, emitted, receipts>>
             /\ KeyOf(last'.frame) \in processedMessages']_vars
    /\ [][(/\ last.op = "message" /\ last.outcome = "emit_error"
           /\ last'.op = "message" /\ last'.frame = last.frame)
          => /\ last'.outcome = "duplicate"
             /\ emitted' = emitted
             /\ receipts' = receipts]_vars
    /\ []((last.op = "message" /\ last.outcome = "emit_error")
            => /\ Live("OPEN") > 0
               /\ ENABLED (Receive(last.frame, FALSE) /\ UNCHANGED clock))

\* C31's case: with read receipts on, this.emit raised on an incoming text; the socket
\* is open, no timer is set, no receipt is in flight, the timestamp is recorded.
C31_Witness ==
    /\ cfg.markAsRead
    /\ last.op = "message"
    /\ last.frame = IncomingText(1)
    /\ last.outcome = "emit_error"
    /\ ws = "OPEN"
    /\ timers = <<>>
    /\ receipts = <<>>
    /\ emitted = <<>>
    /\ processedMessages = {1}

\* C32: a frame with a sync wrapper, no sent message in it and no direct payload is
\* never emitted: with a sourceUuid the handler returns at the classification, without
\* one at the emptiness check.
C32_SyncWithoutSentMessage ==
    [][(/\ last'.op = "message"
        /\ last'.frame.ok
        /\ ~last'.frame.hasDataMessage
        /\ last'.frame.hasSyncMessage
        /\ ~last'.frame.hasSentMessage)
       => /\ ~EmitCalled(last')
          /\ emitted' = emitted
          /\ receipts' = receipts
          /\ KeyOf(last'.frame) \notin processedMessages =>
                last'.outcome =
                    (IF last'.frame.sourceUuid = Undefined THEN "empty" ELSE "skipped")]_vars

\* C32's case: with no flag set, a sync wrapper without sent message and without
\* sourceUuid got as far as the emptiness check and was dropped there.
C32_Witness ==
    /\ ~cfg.ignoreMessages /\ ~cfg.ignoreAttachments /\ ~cfg.ignoreReactions
    /\ last.op = "message"
    /\ last.frame.ok
    /\ last.frame.hasSyncMessage /\ ~last.frame.hasSentMessage /\ ~last.frame.hasDataMessage
    /\ last.frame.sourceUuid = Undefined
    /\ last.outcome = "empty"
    /\ emitted = <<>>

----------------------------------------------------------------------------
(* The delay of the reconnect timers (SpecDelay).                          *)

----------------------------------------------------------------------------
(* The Signal node: retries, item order, parameter checks (SpecNode).      *)

AllFailed(calls) == \A k \in 1..Len(calls) : calls[k] = "fail"

\* C34: retryRequest invokes the request at most twice: every invocation but the
\* latest has failed and was followed by one delay; a success is returned at once, with
\* no further invocation and no delay; the error is thrown only when both invocations
\* have failed, it is the second one's, and no delay follows it.
C34_RetryTwice ==
    /\ [](exec.requests <= DefaultRetries)
    /\ [](exec.phase = "request"
            => /\ AllFailed(exec.calls)
               /\ Len(exec.calls) = exec.requests - 1
               /\ exec.waits = exec.requests - 1)
    /\ [](exec.phase = "wait"
            => /\ AllFailed(exec.calls)
               /\ Len(exec.calls) = exec.requests
               /\ exec.waits = exec.requests
               /\ exec.requests < DefaultRetries)
    /\ [][(exec.phase = "request" /\ Len(exec'.returnData) = Len(exec.returnData) + 1)
          => /\ exec'.phase \in {"loop", "returned"}
             /\ exec'.returnData[Len(exec'.returnData)].attempt = exec.requests
             /\ exec'.requests \in {0, exec.requests}
             /\ exec'.waits \in {0, exec.waits}]_vars
    /\ [][(exec.phase = "request" /\ exec'.phase = "threw")
          => /\ exec.requests = DefaultRetries
             /\ Len(exec'.calls) = DefaultRetries
             /\ AllFailed(exec'.calls)
             /\ exec'.waits = DefaultRetries - 1
             /\ exec'.error.attempt = DefaultRetries]_vars

\* C34's case: both invocations of a request failed, with one delay between them, and
\* the second one's error was thrown.
C34_Witness ==
    /\ exec.caller = "direct"
    /\ exec.phase = "threw"
    /\ exec.calls = <<"fail", "fail">>
    /\ exec.requests = DefaultRetries
    /\ exec.waits = 1
    /\ exec.error.attempt = DefaultRetries

\* C35: execute() takes the items in index order, one at a time; when an item's
\* operation fails execute() throws at that item, goes no further and returns nothing;
\* when it returns, no item has failed and returnData has one result per item, result
\* k with pairedItem.item = k.
C35_FailFastInOrder ==
    /\ [](exec.caller = "execute"
            => /\ \A k \in 1..Len(exec.returnData) : exec.returnData[k].item = k - 1
               /\ exec.phase \in {"loop", "request", "wait"} =>
                     Len(exec.returnData) = exec.i
               /\ exec.failed # {} => (exec.phase = "threw" /\ exec.failed = {exec.i})
               /\ exec.phase = "returned" =>
                     (exec.failed = {} /\ Len(exec.returnData) = Len(exec.recipients)))
    /\ [][exec.phase = "threw" => exec' = exec]_vars
    /\ [][exec'.i # exec.i
          => /\ exec'.i = exec.i + 1
             /\ Len(exec'.returnData) = Len(exec.returnData) + 1]_vars

\* C35's case: execute() was given two items; the request of the first one failed
\* twice; execute() threw with no result, the second item never looked at.
C35_Witness ==
    /\ exec.caller = "execute"
    /\ exec.operation = "sendMessage"
    /\ exec.recipients = <<"+1", "+1">>
    /\ exec.phase = "threw"
    /\ exec.i = 0
    /\ exec.failed = {0}
    /\ exec.returnData = <<>>
    /\ exec.error.attempt = DefaultRetries

\* C36: executeMessagesOperation called with an operation it does not know, or with one
\* of its six operations and an empty recipient, throws a NodeApiError with no request
\* sent and no delay; a request of one of the six operations always has a recipient.
C36_NoRequestWithoutRecipient ==
    /\ []((/\ exec.caller = "direct"
           /\ \/ exec.operation \notin MessageOperations
              \/ exec.recipients[1] = "")
            => /\ exec.phase = "threw"
               /\ exec.error.kind = "NodeApiError"
               /\ exec.requests = 0
               /\ exec.waits = 0
               /\ exec.calls = <<>>)
    /\ []((exec.phase \in {"request", "wait"} /\ exec.operation \in MessageOperations)
            => exec.recipients[exec.i + 1] # "")

\* C36's case: stopTyping was called with an empty recipient and threw before any
\* request.
C36_Witness ==
    /\ exec.caller = "direct"
    /\ exec.operation = "stopTyping"
    /\ exec.recipients = <<"">>
    /\ exec.phase = "threw"
    /\ exec.error = NodeApiError("Recipient is required", 0)
    /\ exec.requests = 0

====
